---- MODULE Spec2Model ----
(***************************************************************************)
(* Role-filtered retrieval-augmented answering: config.py,                 *)
(* rag_processor.py (document tagging, index build/load, get_rag_chain)    *)
(* and the chat script app.py (role selection, question handling,          *)
(* post-processing, escalation trigger).                                   *)
(*                                                                         *)
(* Strings that the code takes apart are modelled as sequences: a          *)
(* filename is a sequence of one-character strings, a text (a model        *)
(* output, an error message, a context) is a sequence of tokens, each      *)
(* token a string that the code never looks inside except through the      *)
(* substring tables below.                                                 *)
(***************************************************************************)
EXTENDS Integers, Sequences, FiniteSets, TLC

(* ----------------------------- bounds --------------------------------- *)
\* files in the documents folder (SpecApi)
MaxFiles == 2
\* chunks the splitter cuts out of one loaded document
MaxPieces == 3
\* tokens the generation backend streams for one answer
MaxOutLen == 2
\* questions one chat session asks
MaxTurns == 1
\* underscore-separated segments of a generated filename
MaxNameParts == 2

(* ----------------------------- helpers -------------------------------- *)
\* Python's None, where an object (a store, a chain) is expected
None == [kind |-> "None"]

\* Python's None, where a string is expected
NoneStr == "None"

Range(s) == {s[i] : i \in 1..Len(s)}

Min(a, b) == IF a <= b THEN a ELSE b

RECURSIVE Flatten(_)
\* concatenation of a sequence of sequences
Flatten(ss) == IF ss = <<>> THEN <<>> ELSE Head(ss) \o Flatten(Tail(ss))

RECURSIVE SelectIdx(_, _, _)
\* the indices i of 1..n (ascending) for which keep[i] holds
SelectIdx(keep, i, n) ==
    IF i > n THEN <<>>
    ELSE (IF keep[i] THEN <<i>> ELSE <<>>) \o SelectIdx(keep, i + 1, n)

(* ----------------------------- config.py ------------------------------ *)
ROLES == <<"customer", "staff", "hr", "manager">>

ROLE_HIERARCHY ==
    [customer |-> 0, public |-> 0, staff |-> 1, hr |-> 2, manager |-> 3]

ALLOWED_EXTENSIONS == << <<".", "t", "x", "t">>, <<".", "p", "d", "f">> >>

\* HierarchyGet with the lowest level for an unknown key
HierarchyGetLowest(role, default) ==
    IF role \in DOMAIN ROLE_HIERARCHY THEN ROLE_HIERARCHY[role] ELSE 0

\* dict.get(key, default)
HierarchyGet(role, default) ==
    IF role \in DOMAIN ROLE_HIERARCHY THEN ROLE_HIERARCHY[role] ELSE default

(* --------------------------- str operations --------------------------- *)
ToLowerTable ==
    [A |-> "a", B |-> "b", C |-> "c", D |-> "d", E |-> "e", F |-> "f",
     G |-> "g", H |-> "h", I |-> "i", J |-> "j", K |-> "k", L |-> "l",
     M |-> "m", N |-> "n", O |-> "o", P |-> "p", Q |-> "q", R |-> "r",
     S |-> "s", T |-> "t", U |-> "u", V |-> "v", W |-> "w", X |-> "x",
     Y |-> "y", Z |-> "z"]

\* str.lower() on a sequence of characters
LowerChars(cs) ==
    [i \in 1..Len(cs) |->
        IF cs[i] \in DOMAIN ToLowerTable THEN ToLowerTable[cs[i]] ELSE cs[i]]

\* the characters of the keys of ROLE_HIERARCHY
RoleChars ==
    [customer |-> <<"c", "u", "s", "t", "o", "m", "e", "r">>,
     public   |-> <<"p", "u", "b", "l", "i", "c">>,
     staff    |-> <<"s", "t", "a", "f", "f">>,
     hr       |-> <<"h", "r">>,
     manager  |-> <<"m", "a", "n", "a", "g", "e", "r">>]

\* os.path.splitext(filename)[0]: cut at the last dot, unless only dots
\* precede it
SplitextBase(fn) ==
    LET dots == {i \in 1..Len(fn) : fn[i] = "."}
        last == IF dots = {} THEN 0
                ELSE CHOOSE i \in dots : \A j \in dots : j <= i
    IN  IF last = 0 \/ (\A j \in 1..(last - 1) : fn[j] = ".") THEN fn
        ELSE SubSeq(fn, 1, last - 1)

\* os.path.splitext(filename)[1]
SplitextExt(fn) == SubSeq(fn, Len(SplitextBase(fn)) + 1, Len(fn))

RECURSIVE SplitUnderscore(_, _)
\* str.split('_'): acc is the segment being read
SplitUnderscore(cs, acc) ==
    IF cs = <<>> THEN <<acc>>
    ELSE IF Head(cs) = "_" THEN <<acc>> \o SplitUnderscore(Tail(cs), <<>>)
    ELSE SplitUnderscore(Tail(cs), Append(acc, Head(cs)))

(* ------------------------- rag_processor.py --------------------------- *)
\* get_rag_chain binds k = 5 in search_kwargs
TopK == 5

\* get_role_from_filename comparing the tag as it is written
get_role_from_filename_cased(filename) ==
    LET base  == SplitextBase(filename)
        parts == SplitUnderscore(base, <<>>)
        tag   == parts[Len(parts)]
        keys  == {k \in DOMAIN ROLE_HIERARCHY : RoleChars[k] = tag}
    IN  IF Len(parts) > 1 /\ keys # {} THEN CHOOSE k \in keys : TRUE
        ELSE "staff"

get_role_from_filename(filename) ==
    LET base  == SplitextBase(filename)
        parts == SplitUnderscore(base, <<>>)
        tag   == LowerChars(parts[Len(parts)])
        keys  == {k \in DOMAIN ROLE_HIERARCHY : RoleChars[k] = tag}
    IN  IF Len(parts) > 1 /\ keys # {} THEN CHOOSE k \in keys : TRUE
        ELSE IF Len(parts) > 1 /\ tag = RoleChars["public"] THEN "public"
        ELSE IF Len(parts) > 1
                /\ \E k \in {"staff", "hr", "manager"} : RoleChars[k] = tag
             THEN CHOOSE k \in {"staff", "hr", "manager"} : RoleChars[k] = tag
        ELSE "staff"

\* Files the documents folder may hold.  name: the filename; stem: the words
\* of its text; pages: how many Documents the loader yields for it (one for
\* a text file, one per page for a PDF).
FilePool ==
    << [name |-> <<"a", "_", "p", "u", "b", "l", "i", "c", ".", "t", "x", "t">>,
        stem |-> "faq", pages |-> 1],
       [name |-> <<"b", "_", "H", "R", ".", "p", "d", "f">>,
        stem |-> "salary", pages |-> 2],
       [name |-> <<"c", "_", "m", "a", "n", "a", "g", "e", "r", ".", "t", "x", "t">>,
        stem |-> "plan", pages |-> 1],
       [name |-> <<"n", ".", "t", "x", "t">>,
        stem |-> "notes", pages |-> 1],
       [name |-> <<"d", "_", "h", "r", "_", "v", "2", ".", "p", "d", "f">>,
        stem |-> "draft", pages |-> 2],
       [name |-> <<"e", "_", "C", "u", "s", "t", "o", "m", "e", "r", ".", "t", "x", "t">>,
        stem |-> "help", pages |-> 1] >>

\* the words of a chunk: its file's stem, its page and its position
PageTok == <<"p1", "p2", "p3">>
PieceTok == <<"s1", "s2", "s3", "s4", "s5", "s6">>

\* A file in the folder: a pool entry, whether the loader can read it, and
\* how many chunks the splitter cuts from each of its Documents.
FileOf(i, ok, pieces) ==
    [name |-> FilePool[i].name, stem |-> FilePool[i].stem,
     pages |-> FilePool[i].pages, ok |-> ok, pieces |-> pieces]

\* loader.load() and the metadata loop of load_documents for one file
LoadFile(f) ==
    LET role       == get_role_from_filename(f.name)
        role_level == HierarchyGet(role, ROLE_HIERARCHY["manager"])
    IN  IF ~f.ok THEN <<>>
        ELSE [p \in 1..f.pages |->
                [text |-> [j \in 1..f.pieces |-> <<f.stem, PageTok[p], PieceTok[j]>>],
                 metadata |->
                    IF SplitextExt(f.name) = ALLOWED_EXTENSIONS[2]
                    THEN [role |-> role, source |-> f.name,
                          role_level |-> role_level, page |-> p]
                    ELSE [role |-> role, source |-> f.name,
                          role_level |-> role_level]]]

\* load_documents(): for each allowed extension, the folder's files of that
\* extension in listing order
load_documents(folder) ==
    LET ofExt(e) == SelectIdx([i \in 1..Len(folder) |->
                                 SplitextExt(folder[i].name) = e], 1, Len(folder))
        order == Flatten([e \in 1..Len(ALLOWED_EXTENSIONS) |->
                            ofExt(ALLOWED_EXTENSIONS[e])])
    IN  Flatten([n \in 1..Len(order) |-> LoadFile(folder[order[n]])])

\* split_documents keeping only the source of the metadata
split_documents_source_only(documents) ==
    Flatten([d \in 1..Len(documents) |->
        [j \in 1..Len(documents[d].text) |->
            [page_content |-> documents[d].text[j],
             metadata |-> [source |-> documents[d].metadata.source]]]])

\* text_splitter.split_documents: each chunk gets a copy of its
\* Document's metadata
split_documents(documents) ==
    Flatten([d \in 1..Len(documents) |->
        [j \in 1..Len(documents[d].text) |->
            [page_content |-> documents[d].text[j],
             metadata |-> documents[d].metadata]]])

(* ------------------------------ state --------------------------------- *)
VARIABLES
    docs_folder,    \* DOCS_FOLDER: the files, in listing order
    persist,        \* PERSIST_DIRECTORY: whether it exists, and the chunks in it
    proc,           \* "off": rag_processor not imported; "up"; "crashed": the import raised
    vector_store,   \* rag_processor.vector_store: None or the Chroma store
    sess,           \* st.session_state of each chat session, with its running request
    api             \* a direct caller of get_rag_chain: its chain and last answer

vars == <<docs_folder, persist, proc, vector_store, sess, api>>

(* --------------------------- the index -------------------------------- *)
\* Chroma(persist_directory=...) / Chroma.from_documents(...): the store
\* holds the chunks in insertion order
Chroma(chunks) == [chunks |-> chunks]

\* The embedding of a question, on the axis on which the i-th inserted
\* chunk lies at i: "first" is nearest to the chunks inserted first, "last"
\* to those inserted last, "middle" to those around position 5.
QVec == [first |-> 0, middle |-> 5, last |-> 99]

Questions == DOMAIN QVec

Dist(q, i) == IF QVec[q] >= i THEN QVec[q] - i ELSE i - QVec[q]

\* MatchesFilter without the comparison
MatchesFilterAny(chunk, level) == "role_level" \in DOMAIN chunk.metadata

\* MatchesFilter with the comparison turned round
MatchesFilterGte(chunk, level) ==
    /\ "role_level" \in DOMAIN chunk.metadata
    /\ chunk.metadata.role_level >= level

\* the "filter": {"role_level": {"$lte": level}} of the retriever: a chunk
\* without the key does not match
MatchesFilter(chunk, level) ==
    /\ "role_level" \in DOMAIN chunk.metadata
    /\ chunk.metadata.role_level <= level

RECURSIVE NearestFirst(_, _)
\* the indices of S by ascending distance to q (then by insertion order)
NearestFirst(S, q) ==
    IF S = {} THEN <<>>
    ELSE LET best == CHOOSE i \in S : \A j \in S :
                        \/ Dist(q, i) < Dist(q, j)
                        \/ (Dist(q, i) = Dist(q, j) /\ i <= j)
         IN  <<best>> \o NearestFirst(S \ {best}, q)

\* SimilaritySearch filtering after the k nearest were taken
SimilaritySearchPostFilter(store, q, k, level) ==
    LET ranked == NearestFirst(1..Len(store.chunks), q)
        top    == [n \in 1..Min(k, Len(ranked)) |-> ranked[n]]
        kept   == SelectIdx([n \in 1..Len(top) |->
                                MatchesFilter(store.chunks[top[n]], level)], 1, Len(top))
    IN  [n \in 1..Len(kept) |-> store.chunks[top[kept[n]]]]

\* similarity search with k and a metadata filter: the k nearest among the
\* chunks that match the filter
SimilaritySearch(store, q, k, level) ==
    LET match  == {i \in 1..Len(store.chunks) : MatchesFilter(store.chunks[i], level)}
        ranked == NearestFirst(match, q)
    IN  [n \in 1..Min(k, Len(ranked)) |-> store.chunks[ranked[n]]]

(* ------------------------ texts and messages -------------------------- *)
OPEN == "<think>"
CLOSE == "</think>"
SP == " "
SEP == "\n\n"
REFUSAL == "Based on the documents I can access, I cannot answer that question."
ERR_PREFIX == "An error occurred:"
UNAVAILABLE_PREFIX == "Assistant is currently unavailable"
NO_DOCS == "No relevant documents were found or accessible for your role."
ASK_QUESTION == "Please provide a question."
KB_UNAVAILABLE ==
    "Knowledge base is currently unavailable. Please try again later or contact support."
RAG_INIT_ERROR == "Error: RAG system could not be initialized. Check logs."
INVALID_ROLE_HEAD == "Error: Invalid role '"
INVALID_ROLE_TAIL == "'. Access denied."

\* format_docs without the test for no docs
format_docs_joined(docs) ==
    Flatten([i \in 1..Len(docs) |->
        (IF i = 1 THEN <<>> ELSE <<SEP>>) \o docs[i].page_content])

\* format_docs
format_docs(docs) ==
    IF docs = <<>> THEN <<NO_DOCS>>
    ELSE Flatten([i \in 1..Len(docs) |->
            (IF i = 1 THEN <<>> ELSE <<SEP>>) \o docs[i].page_content])

(* --------------------------- get_rag_chain ---------------------------- *)
\* A chain is a value: an explain_issue lambda with its message, or the
\* retriever | prompt | llm | parser chain with the role and filter level
\* bound at construction.
ExplainChain(msg) == [kind |-> "explain", msg |-> msg]

RagChain(user_role, user_level) ==
    [kind |-> "rag", user_role |-> user_role, k |-> TopK, lte |-> user_level]

\* get_rag_chain without the checks of the store
get_rag_chain_unchecked(store, user_role) ==
    LET user_level == HierarchyGet(user_role, -1)
    IN  IF user_level = -1
        THEN ExplainChain(<<INVALID_ROLE_HEAD, user_role, INVALID_ROLE_TAIL>>)
        ELSE RagChain(user_role, user_level)

get_rag_chain(store, user_role) ==
    IF store # None
    THEN IF store = None THEN ExplainChain(<<KB_UNAVAILABLE>>)
         ELSE LET user_level == HierarchyGet(user_role, -1)
              IN  IF user_level = -1
                  THEN ExplainChain(<<INVALID_ROLE_HEAD, user_role, INVALID_ROLE_TAIL>>)
                  ELSE RagChain(user_role, user_level)
    ELSE ExplainChain(<<RAG_INIT_ERROR>>)

\* retrieve_and_format_docs: the retriever is called unless the question is
\* empty.  calls is the number of retriever calls made.
retrieve_and_format_docs(store, chain, question) ==
    IF question = ""
    THEN [context |-> <<ASK_QUESTION>>, docs |-> <<>>, calls |-> 0]
    ELSE LET docs == SimilaritySearch(store, question, chain.k, chain.lte)
         IN  [context |-> format_docs(docs), docs |-> docs, calls |-> 1]

(* ------------------- app.py: post-processing of a reply --------------- *)
Whitespace == {SP, SEP}

RECURSIVE LStrip(_)
LStrip(t) == IF t # <<>> /\ Head(t) \in Whitespace THEN LStrip(Tail(t)) ELSE t

RECURSIVE RStrip(_)
RStrip(t) ==
    IF t # <<>> /\ t[Len(t)] \in Whitespace THEN RStrip(SubSeq(t, 1, Len(t) - 1)) ELSE t

\* str.strip()
Strip(t) == RStrip(LStrip(t))

\* full_response.split("</think>")[-1]
AfterLastClose(t) ==
    LET at   == {i \in 1..Len(t) : t[i] = CLOSE}
        last == CHOOSE i \in at : \A j \in at : j <= i
    IN  IF at = {} THEN t ELSE SubSeq(t, last + 1, Len(t))

RECURSIVE RemoveThinkSpans(_)
\* re.sub(r"<think>.*?</think>", "", text, flags=re.DOTALL): from the left,
\* each opening tag that has a closing tag after it goes with everything up
\* to the nearest one
RemoveThinkSpans(t) ==
    IF t = <<>> THEN <<>>
    ELSE IF Head(t) = OPEN /\ \E i \in 2..Len(t) : t[i] = CLOSE
    THEN LET c == CHOOSE i \in 2..Len(t) :
                    t[i] = CLOSE /\ \A j \in 2..(i - 1) : t[j] # CLOSE
         IN  RemoveThinkSpans(SubSeq(t, c + 1, Len(t)))
    ELSE <<Head(t)>> \o RemoveThinkSpans(Tail(t))

\* the <think> tag cleanup
CleanResponse(full_response) ==
    IF CLOSE \in Range(full_response)
    THEN LET first == Strip(AfterLastClose(full_response))
             second == Strip(RemoveThinkSpans(full_response))
         IN  IF first # <<>> THEN first
             ELSE IF second # <<>> THEN second
             ELSE full_response
    ELSE full_response

\* the message type selection, on the text before the cleanup
MessageType(original_llm_output) ==
    IF ERR_PREFIX \in Range(original_llm_output) THEN "error"
    ELSE IF UNAVAILABLE_PREFIX \in Range(original_llm_output) THEN "warning"
    ELSE "markdown"

failure_phrases ==
    << "i cannot answer that question",
       "based on the documents i can access",
       "cannot answer that question",
       "don't have that information",
       "unable to find information",
       "cannot find information",
       "no relevant documents found",
       "no relevant documents were found or accessible",
       "knowledge base is currently unavailable",
       "rag system could not be initialized",
       "error: invalid role" >>

\* str.lower() on the tokens whose lower-cased form differs from them
LowerTok(tok) ==
    CASE tok = REFUSAL ->
            "based on the documents i can access, i cannot answer that question."
      [] tok = ERR_PREFIX -> "an error occurred:"
      [] tok = UNAVAILABLE_PREFIX -> "assistant is currently unavailable"
      [] tok = NO_DOCS ->
            "no relevant documents were found or accessible for your role."
      [] tok = ASK_QUESTION -> "please provide a question."
      [] tok = KB_UNAVAILABLE ->
            "knowledge base is currently unavailable. please try again later or contact support."
      [] tok = RAG_INIT_ERROR ->
            "error: rag system could not be initialized. check logs."
      [] tok = INVALID_ROLE_HEAD -> "error: invalid role '"
      [] tok = INVALID_ROLE_TAIL -> "'. access denied."
      [] tok = "Manager" -> "manager"
      [] tok = "Unable to find information" -> "unable to find information"
      [] OTHER -> tok

Lower(t) == [i \in 1..Len(t) |-> LowerTok(t[i])]

\* phrase in tok (substring, case-sensitive), for the tokens of the model
PhraseInTok(phrase, tok) ==
    \/ phrase = tok
    \/ /\ tok = "based on the documents i can access, i cannot answer that question."
       /\ phrase \in {"i cannot answer that question",
                      "based on the documents i can access",
                      "cannot answer that question"}
    \/ /\ tok = "no relevant documents were found or accessible for your role."
       /\ phrase = "no relevant documents were found or accessible"
    \/ /\ tok = "knowledge base is currently unavailable. please try again later or contact support."
       /\ phrase = "knowledge base is currently unavailable"
    \/ /\ tok = "error: rag system could not be initialized. check logs."
       /\ phrase = "rag system could not be initialized"
    \/ /\ tok = "error: invalid role '"
       /\ phrase = "error: invalid role"

\* phrase in text
PhraseIn(phrase, t) == \E i \in 1..Len(t) : PhraseInTok(phrase, t[i])

\* the ticket trigger logic
OfferTicket(full_response) ==
    LET response_lower == Lower(full_response)
    IN  \E n \in 1..Len(failure_phrases) : PhraseIn(failure_phrases[n], response_lower)

\* f"An error occurred: {e}"
ErrorText(e) == <<ERR_PREFIX>> \o e

(* --------------------------- running a chain -------------------------- *)
\* chain.stream(question) / chain.invoke(question) up to the call of the
\* generation backend.  An explain_issue lambda yields its message as one
\* chunk and calls nothing; the retrieval chain calls the retriever (unless
\* the question is empty), fills the prompt and calls the backend once.
ChainStart(store, chain, question) ==
    IF chain.kind = "explain"
    THEN [docs |-> <<>>, context |-> <<>>, retriever_calls |-> 0,
          llm_calls |-> 0, chunks |-> <<chain.msg>>]
    ELSE LET r == retrieve_and_format_docs(store, chain, question)
         IN  [docs |-> r.docs, context |-> r.context, retriever_calls |-> r.calls,
              llm_calls |-> 1, chunks |-> <<>>]

(* ------------------------------ inputs -------------------------------- *)
\* what the generation backend may put into one streamed chunk
LlmTokens == {"ok", CLOSE, REFUSAL, ERR_PREFIX}

\* str(e) of the exceptions a retriever or backend call may raise
FaultMessages ==
    { <<"connection refused">>,
      <<"unexpected", CLOSE, "in reply">>,
      <<"Unable to find information">> }

\* role names a direct caller may pass to get_rag_chain
ApiRoles == {"customer", "public", "staff", "hr", "manager", "intern", "Manager"}

\* A folder: the pool entries in present, in pool order; how[i] is -1 for
\* a file the loader cannot read, else the chunks per Document
Folder(present, how) ==
    LET idx == SelectIdx([i \in 1..Len(FilePool) |-> i \in present], 1, Len(FilePool))
    IN  [n \in 1..Len(idx) |->
            FileOf(idx[n], how[idx[n]] >= 0,
                   IF how[idx[n]] >= 0 THEN how[idx[n]] ELSE 0)]

\* folders of the chat specification
ChatFolders ==
    { <<>>,
      <<FileOf(3, FALSE, 0)>>,
      <<FileOf(4, TRUE, 0)>>,
      <<FileOf(3, TRUE, 1)>>,
      <<FileOf(1, TRUE, 1), FileOf(2, TRUE, 1)>> }

\* folders of the index specification
ApiFolders ==
    UNION { { Folder(present, how) : how \in [present -> -1..MaxPieces] } :
            present \in {S \in SUBSET (1..Len(FilePool)) : Cardinality(S) <= MaxFiles} }

(* --------------------------- initial state ---------------------------- *)
IdleRequest == [phase |-> "idle"]

NoAnswer == [done |-> FALSE]

\* the session state initialization of app.py
SessionInit ==
    [user_role |-> NoneStr, rag_chain |-> None, show_ticket_form |-> FALSE,
     last_question |-> "", chat_history |-> <<>>,
     req |-> IdleRequest, last |-> NoAnswer]

ApiInit == [chain |-> None, role |-> NoneStr, answered |-> FALSE]

Sessions == {"s1"}

InitWith(folders) ==
    /\ docs_folder \in folders
    /\ persist = [exists |-> FALSE, chunks |-> <<>>]
    /\ proc = "off"
    /\ vector_store = None
    /\ sess = [s \in Sessions |-> SessionInit]
    /\ api = ApiInit

Init == InitWith(ChatFolders)

InitApi == InitWith(ApiFolders)

(* ------------------- rag_processor.py at import time ------------------ *)
\* create_or_load_vector_store() and the module-level assignment.
\* from_documents with no chunk at all is left to the vector store: it
\* returns an empty store, or raises after or before creating the directory.
Startup ==
    /\ proc = "off"
    /\ UNCHANGED <<docs_folder, sess, api>>
    /\ IF persist.exists
       THEN /\ vector_store' = Chroma(persist.chunks)
            /\ proc' = "up"
            /\ UNCHANGED persist
       ELSE LET documents == load_documents(docs_folder)
                chunks    == split_documents(documents)
            IN  IF documents = <<>>
                THEN /\ vector_store' = None
                     /\ proc' = "up"
                     /\ UNCHANGED persist
                ELSE IF chunks # <<>>
                THEN /\ vector_store' = Chroma(chunks)
                     /\ persist' = [exists |-> TRUE, chunks |-> chunks]
                     /\ proc' = "up"
                ELSE \/ /\ vector_store' = Chroma(<<>>)
                        /\ persist' = [exists |-> TRUE, chunks |-> <<>>]
                        /\ proc' = "up"
                     \/ /\ vector_store' = None
                        /\ persist' \in {[exists |-> b, chunks |-> <<>>] : b \in BOOLEAN}
                        /\ proc' = "crashed"

\* the process ends and the script is started again: module globals and
\* session states are gone, the persisted directory stays
Restart ==
    /\ proc \in {"up", "crashed"}
    /\ proc' = "off"
    /\ vector_store' = None
    /\ sess' = [s \in DOMAIN sess |-> SessionInit]
    /\ api' = ApiInit
    /\ UNCHANGED <<docs_folder, persist>>

(* ------------------------ direct use of the chain --------------------- *)
\* A caller outside the chat script: chain = get_rag_chain(role), then one
\* chain.invoke(question) whose outcome is kept in api.
ApiGetChain(role) ==
    /\ proc = "up"
    /\ api' = [chain |-> get_rag_chain(vector_store, role), role |-> role,
               answered |-> FALSE]
    /\ UNCHANGED <<docs_folder, persist, proc, vector_store, sess>>

\* chain.invoke(question): the backend, if it is called, returns reply or
\* raises
ApiInvoke(question, reply, raises) ==
    /\ proc = "up"
    /\ api.chain # None
    /\ ~api.answered
    /\ LET r == ChainStart(vector_store, api.chain, question)
       IN  /\ raises => r.llm_calls = 1
           /\ api' = [chain |-> api.chain, role |-> api.role, answered |-> TRUE,
                      question |-> question, docs |-> r.docs,
                      context |-> r.context,
                      retriever_calls |-> r.retriever_calls,
                      llm_calls |-> r.llm_calls, raised |-> raises,
                      output |-> IF raises THEN <<>>
                                 ELSE IF r.llm_calls = 1 THEN <<reply>>
                                 ELSE r.chunks]
    /\ UNCHANGED <<docs_folder, persist, proc, vector_store, sess>>

(* ------------------------------ app.py -------------------------------- *)
\* RoleChangeChain keeping a chain that is already there
RoleChangeChainKept(old, store, role, built) ==
    IF old # None THEN old
    ELSE IF store # None /\ built THEN get_rag_chain(store, role)
    ELSE None

\* the chain the role change handler stores: built is FALSE when
\* get_rag_chain raised
RoleChangeChain(old, store, role, built) ==
    IF store # None
    THEN IF built THEN get_rag_chain(store, role) ELSE None
    ELSE None

\* RoleChange with the chain kept in one place for all sessions
RoleChangeShared(s, selected_role, built) ==
    /\ proc = "up"
    /\ selected_role \in Range(ROLES)
    /\ selected_role # sess[s].user_role
    /\ sess' = [t \in DOMAIN sess |->
                 IF t = s
                 THEN [user_role |-> selected_role,
                       chat_history |-> <<>>,
                       show_ticket_form |-> FALSE,
                       last_question |-> "",
                       rag_chain |-> RoleChangeChain(sess[s].rag_chain, vector_store,
                                                     selected_role, built),
                       req |-> IdleRequest,
                       last |-> NoAnswer]
                 ELSE [sess[t] EXCEPT !.rag_chain =
                         IF @ = None THEN @
                         ELSE RoleChangeChain(@, vector_store, selected_role, built)]]
    /\ UNCHANGED <<docs_folder, persist, proc, vector_store, api>>

\* RoleChange without the reset of the conversation
RoleChangeHistoryKept(s, selected_role, built) ==
    /\ proc = "up"
    /\ selected_role \in Range(ROLES)
    /\ selected_role # sess[s].user_role
    /\ sess' = [sess EXCEPT ![s] =
                 [user_role |-> selected_role,
                  chat_history |-> sess[s].chat_history,
                  show_ticket_form |-> sess[s].show_ticket_form,
                  last_question |-> sess[s].last_question,
                  rag_chain |-> RoleChangeChain(sess[s].rag_chain, vector_store,
                                                selected_role, built),
                  req |-> IdleRequest,
                  last |-> sess[s].last]]
    /\ UNCHANGED <<docs_folder, persist, proc, vector_store, api>>

\* The sidebar's role change handler.  A widget event ends the script run
\* in progress and starts a new one, so a request that is still streaming
\* is dropped.
RoleChange(s, selected_role, built) ==
    /\ proc = "up"
    /\ selected_role \in Range(ROLES)
    /\ selected_role # sess[s].user_role
    /\ sess' = [sess EXCEPT ![s] =
                 [user_role |-> selected_role,
                  chat_history |-> <<>>,
                  show_ticket_form |-> FALSE,
                  last_question |-> "",
                  rag_chain |-> RoleChangeChain(sess[s].rag_chain, vector_store,
                                                selected_role, built),
                  req |-> IdleRequest,
                  last |-> NoAnswer]]
    /\ UNCHANGED <<docs_folder, persist, proc, vector_store, api>>

\* st.chat_input is disabled without a role or without a chain
chat_input_disabled(s) == sess[s].user_role = NoneStr \/ sess[s].rag_chain = None

\* The chat input handler up to rag_chain.stream(prompt).
Ask(s, prompt) ==
    /\ proc = "up"
    /\ ~chat_input_disabled(s)
    /\ sess[s].req.phase = "idle"
    /\ Len(sess[s].chat_history) < 2 * MaxTurns
    /\ sess' = [sess EXCEPT ![s] =
                 [@ EXCEPT !.last_question = prompt,
                           !.show_ticket_form = FALSE,
                           !.chat_history =
                               Append(@, [role |-> "user", content |-> prompt]),
                           !.req = [phase |-> "called", prompt |-> prompt,
                                    chain |-> sess[s].rag_chain,
                                    streamed_text |-> <<>>],
                           !.last = NoAnswer]]
    /\ UNCHANGED <<docs_folder, persist, proc, vector_store, api>>

\* The first step of the stream: retrieval, prompt, call of the backend.
Retrieve(s) ==
    /\ sess[s].req.phase = "called"
    /\ LET r == ChainStart(vector_store, sess[s].req.chain, sess[s].req.prompt)
       IN  sess' = [sess EXCEPT ![s].req =
                     [phase |-> "streaming", prompt |-> @.prompt, chain |-> @.chain,
                      streamed_text |-> Flatten(r.chunks), docs |-> r.docs,
                      context |-> r.context,
                      retriever_calls |-> r.retriever_calls,
                      llm_calls |-> r.llm_calls]]
    /\ UNCHANGED <<docs_folder, persist, proc, vector_store, api>>

\* for chunk in response_stream: streamed_text += chunk
StreamChunk(s, chunk) ==
    /\ sess[s].req.phase = "streaming"
    /\ sess[s].req.llm_calls = 1
    /\ Len(sess[s].req.streamed_text) < MaxOutLen
    /\ sess' = [sess EXCEPT ![s].req.streamed_text = Append(@, chunk)]
    /\ UNCHANGED <<docs_folder, persist, proc, vector_store, api>>

\* Everything after the try block: cleanup, message type, ticket trigger,
\* the assistant message.  fault says whether the except branch ran.
Finish(s, response, fault) ==
    LET original_llm_output == response
        full_response == CleanResponse(response)
        offer_ticket  == OfferTicket(full_response)
        r             == sess[s].req
    IN  sess' = [sess EXCEPT ![s] =
                  [@ EXCEPT
                    !.show_ticket_form = IF offer_ticket THEN TRUE ELSE @,
                    !.chat_history = Append(@,
                        [role |-> "assistant", content |-> full_response,
                         msg_id |-> Len(sess[s].chat_history),
                         question |-> r.prompt,
                         offer_ticket |-> offer_ticket,
                         feedback |-> [show |-> TRUE, rating |-> NoneStr]]),
                    !.req = IdleRequest,
                    !.last = [done |-> TRUE, prompt |-> r.prompt, chain |-> r.chain,
                              user_role |-> sess[s].user_role,
                              retrieved |-> r.phase = "streaming",
                              docs |-> IF r.phase = "streaming" THEN r.docs ELSE <<>>,
                              retriever_calls |->
                                  IF r.phase = "streaming" THEN r.retriever_calls ELSE 1,
                              llm_calls |->
                                  IF r.phase = "streaming" THEN r.llm_calls ELSE 0,
                              fault |-> fault,
                              partial |-> r.streamed_text # <<>>,
                              original_llm_output |-> original_llm_output,
                              full_response |-> full_response,
                              message_type |-> MessageType(original_llm_output),
                              offer_ticket |-> offer_ticket,
                              history_before |-> Len(sess[s].chat_history)]]]

\* the stream ends: full_response = streamed_text
StreamEnd(s) ==
    /\ sess[s].req.phase = "streaming"
    /\ Finish(s, sess[s].req.streamed_text, FALSE)
    /\ UNCHANGED <<docs_folder, persist, proc, vector_store, api>>

\* the retriever or the backend raises, before the first chunk or after
\* some: the except branch sets full_response
Fault(s, e) ==
    /\ \/ /\ sess[s].req.phase = "called"
          /\ sess[s].req.chain.kind = "rag"
       \/ /\ sess[s].req.phase = "streaming"
          /\ sess[s].req.llm_calls = 1
    /\ Finish(s, ErrorText(e), TRUE)
    /\ UNCHANGED <<docs_folder, persist, proc, vector_store, api>>

\* the ticket form's submit button; saved is create_ticket's result
SubmitTicket(s, saved) ==
    /\ proc = "up"
    /\ sess[s].req.phase = "idle"
    /\ sess[s].show_ticket_form
    /\ sess' = [sess EXCEPT ![s].show_ticket_form = IF saved THEN FALSE ELSE @]
    /\ UNCHANGED <<docs_folder, persist, proc, vector_store, api>>

(* --------------------------- specifications --------------------------- *)
ApiNext ==
    \/ \E role \in ApiRoles : ApiGetChain(role)
    \/ \E q \in Questions \cup {""}, raises \in BOOLEAN : ApiInvoke(q, <<"ok">>, raises)

ChatNext ==
    \/ \E s \in Sessions, r \in Range(ROLES), built \in BOOLEAN : RoleChange(s, r, built)
    \/ \E s \in Sessions, q \in {"first", "last"} : Ask(s, q)
    \/ \E s \in Sessions : Retrieve(s)
    \/ \E s \in Sessions, chunk \in LlmTokens : StreamChunk(s, chunk)
    \/ \E s \in Sessions : StreamEnd(s)
    \/ \E s \in Sessions, e \in FaultMessages : Fault(s, e)
    \/ \E s \in Sessions, saved \in BOOLEAN : SubmitTicket(s, saved)

\* the chat sessions
Next == Startup \/ Restart \/ ChatNext

Spec == Init /\ [][Next]_vars

\* the index and direct callers of get_rag_chain, over larger folders
NextApi == Startup \/ Restart \/ ApiNext

SpecApi == InitApi /\ [][NextApi]_vars

\* chat sessions and direct callers together, over the folders that leave
\* the store unavailable and one that does not
OfflineFolders == { <<>>, <<FileOf(3, FALSE, 0)>>, <<FileOf(4, TRUE, 0)>>,
                    <<FileOf(3, TRUE, 1)>> }

InitAll == InitWith(OfflineFolders)

NextAll ==
    \/ Startup
    \/ Restart
    \/ ChatNext
    \/ \E role \in {"staff", "public", "intern"} : ApiGetChain(role)
    \/ \E q \in {"first", ""}, raises \in BOOLEAN : ApiInvoke(q, <<"ok">>, raises)

SpecAll == InitAll /\ [][NextAll]_vars

\* two browser sessions on one server process, over a folder with a public
\* text file and a two-page PDF for hr
TwoSessions == {"s1", "s2"}

InitTwo ==
    /\ docs_folder = <<FileOf(1, TRUE, 1), FileOf(2, TRUE, 1)>>
    /\ persist = [exists |-> FALSE, chunks |-> <<>>]
    /\ proc = "off"
    /\ vector_store = None
    /\ sess = [s \in TwoSessions |-> SessionInit]
    /\ api = ApiInit

NextTwo ==
    \/ Startup
    \/ Restart
    \/ \E s \in TwoSessions, r \in {"customer", "hr"}, built \in BOOLEAN :
          RoleChange(s, r, built)
    \/ \E s \in TwoSessions : Ask(s, "first")
    \/ \E s \in TwoSessions : Retrieve(s)
    \/ \E s \in TwoSessions : StreamChunk(s, "ok")
    \/ \E s \in TwoSessions : StreamEnd(s)
    \/ \E s \in TwoSessions : Fault(s, <<"Unable to find information">>)
    \/ \E s \in TwoSessions, saved \in BOOLEAN : SubmitTicket(s, saved)

SpecTwo == InitTwo /\ [][NextTwo]_vars

(* ------------------- filenames for get_role_from_filename ------------- *)
\* the segments filenames are put together from
TagSegments ==
    { <<>>, <<"a">>, <<"h", "r">>, <<"H", "R">>, <<"H", "r">>,
      <<"m", "a", "n", "a", "g", "e", "r">>, <<"M", "a", "n", "a", "g", "e", "r">>,
      <<"m", "a", "n", "a", "g", "e", "r", "s">>,
      <<"p", "u", "b", "l", "i", "c">>, <<"P", "U", "B", "L", "I", "C">>,
      <<"s", "t", "a", "f", "f">>, <<"c", "u", "s", "t", "o", "m", "e", "r">>,
      <<"C", "u", "s", "t", "o", "m", "e", "r">>, <<"h", "r", ".", "v">> }

TagExtensions ==
    { <<>>, <<".", "t", "x", "t">>, <<".", "p", "d", "f">>, <<".", "m", "d">>,
      <<".">>, <<".", "T", "X", "T">> }

RECURSIVE JoinUnderscore(_)
\* '_'.join(segs)
JoinUnderscore(segs) ==
    IF Len(segs) = 1 THEN segs[1]
    ELSE segs[1] \o <<"_">> \o JoinUnderscore(Tail(segs))

\* filenames of one to MaxNameParts segments and an extension
TagNames ==
    UNION { { JoinUnderscore(segs) \o ext :
                segs \in [1..n -> TagSegments], ext \in TagExtensions } :
            n \in 1..MaxNameParts }

\* a folder with one readable one-page file of that name
TagFolders ==
    { << [name |-> n, stem |-> "doc", pages |-> 1, ok |-> TRUE, pieces |-> 1] >> :
        n \in TagNames }

InitTag == InitWith(TagFolders)

NextTag == Startup \/ Restart

\* the import over folders of generated filenames
SpecTag == InitTag /\ [][NextTag]_vars

(* ======================= properties: SpecApi ========================== *)
\* the direct caller holds the answer of a retrieval chain
ApiRagAnswered == api.answered /\ api.chain.kind = "rag"

\* the caller's retriever was called on a question
ApiRetrieved == ApiRagAnswered /\ api.retriever_calls = 1

\* the indexed chunks a level may see
Accessible(level) ==
    {i \in 1..Len(vector_store.chunks) :
        /\ "role_level" \in DOMAIN vector_store.chunks[i].metadata
        /\ vector_store.chunks[i].metadata.role_level <= level}

\* C1: a chain built for a valid role with level L retrieves only chunks
\* whose role_level is <= L, so no chunk above L is in the context of the
\* prompt.
C1_OnlyAccessibleChunks ==
    ApiRagAnswered =>
        /\ \A i \in 1..Len(api.docs) :
              /\ "role_level" \in DOMAIN api.docs[i].metadata
              /\ api.docs[i].metadata.role_level <= ROLE_HIERARCHY[api.role]
        /\ \A i \in 1..Len(vector_store.chunks) :
              i \notin Accessible(ROLE_HIERARCHY[api.role]) =>
                  vector_store.chunks[i] \notin Range(api.docs)

\* C1 witness: chunks were retrieved for a level below a chunk of the
\* store that lies nearer to the question than every retrieved one.
C1_Witness ==
    /\ ApiRetrieved
    /\ Len(api.docs) = TopK
    /\ api.question = "first"
    /\ vector_store.chunks[1].metadata.role_level > ROLE_HIERARCHY[api.role]

\* C2: every indexed chunk carries the source of a loaded Document and that
\* Document's role_level, which is ROLE_HIERARCHY of the role resolved from
\* the filename; no chunk is indexed without a role_level.
C2_MetadataPropagates ==
    vector_store # None =>
        \A i \in 1..Len(vector_store.chunks) :
            LET md == vector_store.chunks[i].metadata
            IN  /\ {"source", "role_level"} \subseteq DOMAIN md
                /\ md.role_level = ROLE_HIERARCHY[get_role_from_filename(md.source)]
                /\ \E d \in Range(load_documents(docs_folder)) :
                      /\ d.metadata = md
                      /\ vector_store.chunks[i].page_content \in Range(d.text)

\* C2 witness: a store with chunks of a two-page PDF tagged _HR (level 2)
\* and of an untagged file (level 1).
C2_Witness ==
    /\ vector_store # None
    /\ \E i, j \in 1..Len(vector_store.chunks) :
          /\ vector_store.chunks[i].metadata.role_level = 2
          /\ "page" \in DOMAIN vector_store.chunks[i].metadata
          /\ vector_store.chunks[i].metadata.page = 2
          /\ vector_store.chunks[j].metadata.role_level = 1
          /\ vector_store.chunks[j].metadata.source = FilePool[4].name

\* what the chain of the highest role retrieves for a question
ManagerDocs(question) ==
    ChainStart(vector_store, get_rag_chain(vector_store, "manager"), question).docs

\* C3 as stated: for a fixed question and k = 5, what the manager level
\* retrieves is a superset of what any lower level retrieves, for every
\* corpus.
C3_ManagerSuperset ==
    ApiRetrieved => Range(api.docs) \subseteq Range(ManagerDocs(api.question))

\* C3 amended: the superset holds for every corpus with at most k = 5
\* indexed chunks.
C3_ManagerSupersetUpToK ==
    (ApiRetrieved /\ Len(vector_store.chunks) <= TopK) =>
        Range(api.docs) \subseteq Range(ManagerDocs(api.question))

\* C3 witness: a lower level retrieved some but not all chunks of a store
\* of five chunks.
C3_Witness ==
    /\ ApiRetrieved
    /\ ROLE_HIERARCHY[api.role] < ROLE_HIERARCHY["manager"]
    /\ Len(vector_store.chunks) = TopK
    /\ api.docs # <<>>
    /\ Len(api.docs) < Len(ManagerDocs(api.question))

\* C4: retrieval for level L returns exactly min(k, n) chunks, n the number
\* of indexed chunks with role_level <= L, each once: chunks above L that
\* lie nearer do not take places among the k.
C4_ReturnsMinKN ==
    ApiRetrieved =>
        /\ Len(api.docs) = Min(TopK, Cardinality(Accessible(ROLE_HIERARCHY[api.role])))
        /\ Cardinality(Range(api.docs)) = Len(api.docs)

\* C4 witness: five chunks were returned although fewer than five of the
\* five nearest chunks are accessible.
C4_Witness ==
    /\ ApiRetrieved
    /\ Len(api.docs) = TopK
    /\ Len(SimilaritySearchPostFilter(vector_store, api.question, TopK,
                                      ROLE_HIERARCHY[api.role])) < TopK

\* no retriever call, no backend call, one message
ApiSingleMessage(msg) ==
    /\ api.output = <<msg>>
    /\ api.retriever_calls = 0
    /\ api.llm_calls = 0

\* C5 as stated: for every role that is no key of the role catalog, the
\* chain answers with the single invalid-role message and calls neither the
\* retriever nor the backend.
C5_InvalidRole ==
    (api.answered /\ api.role \notin DOMAIN ROLE_HIERARCHY) =>
        ApiSingleMessage(<<INVALID_ROLE_HEAD, api.role, INVALID_ROLE_TAIL>>)

\* C5 amended: that holds while the vector store is available; without a
\* store the chain answers with the single could-not-be-initialized message,
\* and in both cases nothing is called.
C5_InvalidRoleWithStore ==
    (api.answered /\ api.role \notin DOMAIN ROLE_HIERARCHY) =>
        IF vector_store # None
        THEN ApiSingleMessage(<<INVALID_ROLE_HEAD, api.role, INVALID_ROLE_TAIL>>)
        ELSE ApiSingleMessage(<<RAG_INIT_ERROR>>)

\* C5 witness: with a store of chunks, a chain for "Manager" (no key: the
\* lookup is case-sensitive) has answered.
C5_Witness ==
    /\ api.answered
    /\ api.role = "Manager"
    /\ vector_store # None
    /\ vector_store.chunks # <<>>
    /\ api.question = "first"

RECURSIVE JoinTexts(_)
\* the texts of one or more chunks with a separator between neighbours
JoinTexts(docs) ==
    IF Len(docs) = 1 THEN docs[1].page_content
    ELSE docs[1].page_content \o <<SEP>> \o JoinTexts(Tail(docs))

\* C13: the context a retrieval chain puts into the prompt is never empty;
\* when the retriever was called it is the sentinel exactly when no chunk
\* came back, and otherwise the chunks' texts joined by separators in the
\* order the retriever returned them.
C13_ContextSentinel ==
    ApiRagAnswered =>
        /\ api.context # <<>>
        /\ api.retriever_calls = 1 =>
              /\ api.docs = SimilaritySearch(vector_store, api.question, TopK,
                                             ROLE_HIERARCHY[api.role])
              /\ api.context = <<NO_DOCS>> <=> api.docs = <<>>
              /\ api.docs # <<>> => api.context = JoinTexts(api.docs)

\* C13 witness: the store holds chunks, none of them accessible to the
\* caller's level, and the context is the sentinel.
C13_Witness ==
    /\ ApiRetrieved
    /\ vector_store.chunks # <<>>
    /\ api.docs = <<>>
    /\ api.context = <<NO_DOCS>>

(* ================== properties: Spec and SpecAll ====================== *)
\* the outcome of the last finished request of session s
Last(s) == sess[s].last

\* C6 as stated: whenever the retriever returned no chunk, the request ends
\* with the escalation offer raised and a final text that contains a
\* refusal phrase, whatever the backend produced.
C6_NoChunksMeansRefusal ==
    \A s \in DOMAIN sess :
        (Last(s).done /\ Last(s).retrieved /\ Last(s).retriever_calls = 1
            /\ Last(s).docs = <<>>) =>
                /\ Last(s).offer_ticket
                /\ \E n \in 1..Len(failure_phrases) :
                      PhraseIn(failure_phrases[n], Lower(Last(s).full_response))

\* C7: without a vector store every chain get_rag_chain returns is the
\* could-not-be-initialized lambda, its answers are that one message with
\* no retriever and no backend call, and a chat session has no chain, so
\* no question is in flight or answered.
C7_StoreUnavailable ==
    vector_store = None =>
        /\ api.chain # None => api.chain = ExplainChain(<<RAG_INIT_ERROR>>)
        /\ api.answered => ApiSingleMessage(<<RAG_INIT_ERROR>>)
        /\ \A s \in DOMAIN sess :
              /\ sess[s].rag_chain = None
              /\ sess[s].req.phase = "idle"
              /\ ~Last(s).done
              /\ sess[s].chat_history = <<>>

\* C7 witness: the import finished without a store, a direct caller asked
\* a chain built for an unknown role, and a session has selected a role.
C7_Witness ==
    /\ vector_store = None
    /\ proc = "up"
    /\ api.answered
    /\ api.role = "intern"
    /\ \E s \in DOMAIN sess : sess[s].user_role = "manager"

\* C8 as stated: after a fault, before or after streamed chunks, the
\* request is finished, the final text is the error message, the message
\* type is error, and exactly one assistant message with that text was
\* appended.
C8_FaultBecomesErrorMessage ==
    \A s \in DOMAIN sess :
        (Last(s).done /\ Last(s).fault) =>
            /\ sess[s].req.phase = "idle"
            /\ Last(s).full_response \in {ErrorText(e) : e \in FaultMessages}
            /\ Last(s).message_type = "error"
            /\ Len(sess[s].chat_history) = Last(s).history_before + 1
            /\ sess[s].chat_history[Len(sess[s].chat_history)].role = "assistant"
            /\ sess[s].chat_history[Len(sess[s].chat_history)].content
                  = Last(s).full_response

\* C9 as stated: the escalation form is raised exactly when the lower-cased
\* final text contains a refusal phrase; a request with a fault is typed as
\* an error; every other request is typed as an ordinary answer and raises
\* no form.
C9_Classification ==
    \A s \in DOMAIN sess :
        Last(s).done =>
            /\ Last(s).offer_ticket <=>
                  \E n \in 1..Len(failure_phrases) :
                      PhraseIn(failure_phrases[n], Lower(Last(s).full_response))
            /\ sess[s].show_ticket_form => Last(s).offer_ticket
            /\ Last(s).fault => Last(s).message_type = "error"
            /\ (~Last(s).fault /\ ~Last(s).offer_ticket) =>
                  /\ Last(s).message_type = "markdown"
                  /\ ~sess[s].show_ticket_form

\* C10: the session's chain is absent or the chain get_rag_chain builds for
\* the session's current user_role, with that role's level as its filter;
\* a request in flight or finished ran on the chain of the role that is
\* current.
C10_ChainOfCurrentRole ==
    \A s \in DOMAIN sess :
        /\ sess[s].rag_chain # None =>
              /\ sess[s].user_role \in Range(ROLES)
              /\ sess[s].rag_chain.kind = "rag"
              /\ sess[s].rag_chain.user_role = sess[s].user_role
              /\ sess[s].rag_chain.lte = ROLE_HIERARCHY[sess[s].user_role]
              /\ sess[s].rag_chain.k = TopK
        /\ sess[s].req.phase # "idle" =>
              /\ sess[s].req.chain = sess[s].rag_chain
              /\ sess[s].req.chain.user_role = sess[s].user_role
        /\ Last(s).done =>
              /\ Last(s).chain = sess[s].rag_chain
              /\ Last(s).user_role = sess[s].user_role
              /\ Last(s).chain.user_role = sess[s].user_role

\* C10 witness: after a restart's worth of role selections a question was
\* answered for hr by a chain whose filter is hr's level.
C10_Witness ==
    \E s \in DOMAIN sess :
        /\ Last(s).done
        /\ sess[s].user_role = "hr"
        /\ Last(s).chain.lte = 2
        /\ Last(s).retrieved
        /\ Last(s).docs # <<>>

\* C12 as stated: the final text of a request whose backend output was
\* post-processed is never empty; with the closing delimiter in the output
\* it is the trimmed text after the last delimiter, or if that is empty the
\* trimmed output without its delimiter-bounded spans, or if that is empty
\* the output itself; this final text is what the history stores and what
\* the escalation trigger reads.
C12_FinalTextNeverEmpty ==
    \A s \in DOMAIN sess :
        (Last(s).done /\ ~Last(s).fault) =>
            LET out    == Last(s).original_llm_output
                final  == Last(s).full_response
                after  == Strip(AfterLastClose(out))
                nospan == Strip(RemoveThinkSpans(out))
            IN  /\ final # <<>>
                /\ CLOSE \in Range(out) =>
                      final = IF after # <<>> THEN after
                              ELSE IF nospan # <<>> THEN nospan ELSE out
                /\ sess[s].chat_history[Len(sess[s].chat_history)].content = final
                /\ Last(s).offer_ticket = OfferTicket(final)

\* C14 as stated: when the folder yields no chunk at all (and so nothing
\* was persisted before), index construction aborts: the store stays None,
\* no directory is persisted, and no session gets a chain from
\* get_rag_chain.
C14_ZeroChunksAbortsBuild ==
    split_documents(load_documents(docs_folder)) = <<>> =>
        /\ vector_store = None
        /\ ~persist.exists
        /\ \A s \in DOMAIN sess : sess[s].rag_chain = None

\* the answer of the last finished request of s is the last message of its
\* history and came from the chain bound to the role that is current
LastAnswerOfCurrentRole(s) ==
    Last(s).done =>
        /\ sess[s].chat_history # <<>>
        /\ sess[s].chat_history[Len(sess[s].chat_history)].role = "assistant"
        /\ sess[s].chat_history[Len(sess[s].chat_history)].content
              = Last(s).full_response
        /\ Last(s).chain = RagChain(sess[s].user_role,
                                    ROLE_HIERARCHY[sess[s].user_role])

\* what a step may do to the conversation of s: a change of role leaves
\* no message, no last question, no form and no request; under an
\* unchanged role the history is emptied or grows by one message, and an
\* assistant message comes from a request on the current role's chain
ConversationStep(s) ==
    /\ sess'[s].user_role # sess[s].user_role =>
          /\ sess'[s].chat_history = <<>>
          /\ sess'[s].last_question = ""
          /\ ~sess'[s].show_ticket_form
          /\ sess'[s].req.phase = "idle"
          /\ ~sess'[s].last.done
    /\ (sess'[s].user_role = sess[s].user_role
            /\ sess'[s].chat_history # sess[s].chat_history) =>
          \/ sess'[s].chat_history = <<>>
          \/ /\ Len(sess'[s].chat_history) = Len(sess[s].chat_history) + 1
             /\ SubSeq(sess'[s].chat_history, 1, Len(sess[s].chat_history))
                   = sess[s].chat_history
             /\ sess'[s].chat_history[Len(sess'[s].chat_history)].role = "assistant" =>
                   /\ sess[s].req.phase # "idle"
                   /\ sess[s].req.chain = RagChain(sess[s].user_role,
                                                   ROLE_HIERARCHY[sess[s].user_role])

\* C16: every assistant message of a session's history was produced by a
\* chain bound to the session's current role: a role change empties the
\* history, clears last_question, hides the escalation form and leaves no
\* request, and messages are only added by requests on the current role's
\* chain.
C16_HistoryOfCurrentRole ==
    /\ [](\A s \in DOMAIN sess : LastAnswerOfCurrentRole(s))
    /\ [][\A s \in DOMAIN sess : ConversationStep(s)]_vars

\* C16 witness: the history of a session whose role is staff ends with the
\* refusal its staff-level chain produced, and the escalation form is shown.
C16_Witness ==
    \E s \in DOMAIN sess :
        /\ sess[s].user_role = "staff"
        /\ Last(s).done
        /\ Last(s).chain.lte = 1
        /\ Len(sess[s].chat_history) = 2
        /\ sess[s].chat_history[2].content = <<REFUSAL>>
        /\ sess[s].show_ticket_form

(* ======================= properties: SpecTwo ========================== *)
\* session s uses the access level of its own role: its chain, the chain of
\* its request in flight and the chunks that request retrieved
UsesOwnLevel(s) ==
    /\ sess[s].rag_chain # None =>
          sess[s].rag_chain = RagChain(sess[s].user_role,
                                       ROLE_HIERARCHY[sess[s].user_role])
    /\ sess[s].req.phase # "idle" => sess[s].req.chain = sess[s].rag_chain
    /\ sess[s].req.phase = "streaming" =>
          sess[s].req.docs = SimilaritySearch(vector_store, sess[s].req.prompt, TopK,
                                              ROLE_HIERARCHY[sess[s].user_role])

\* a step of the running process that changes session state changes one
\* session only and writes neither the index nor what is persisted
StepOfOneSession ==
    (proc = "up" /\ proc' = "up" /\ sess' # sess) =>
        /\ \E s \in DOMAIN sess : \A t \in DOMAIN sess \ {s} : sess'[t] = sess[t]
        /\ UNCHANGED <<vector_store, persist, docs_folder>>

\* C15: for every interleaving of two sessions, each session retrieves at
\* the level of its own role, a role selection or question of one session
\* leaves the chain, history and escalation state of the other unchanged,
\* and no request writes the index.
C15_SessionsIndependent ==
    /\ [](\A s \in DOMAIN sess : UsesOwnLevel(s))
    /\ [][StepOfOneSession]_vars

\* C15 witness: two requests are streaming at once, the customer's with
\* the public chunk only, hr's with a chunk of level 2.
C15_Witness ==
    /\ DOMAIN sess = TwoSessions
    /\ sess["s1"].user_role = "customer"
    /\ sess["s2"].user_role = "hr"
    /\ sess["s1"].req.phase = "streaming"
    /\ sess["s2"].req.phase = "streaming"
    /\ Len(sess["s1"].req.docs) = 1
    /\ \A i \in 1..Len(sess["s1"].req.docs) :
          sess["s1"].req.docs[i].metadata.role_level = 0
    /\ \E i \in 1..Len(sess["s2"].req.docs) :
          sess["s2"].req.docs[i].metadata.role_level = 2

(* ======================= properties: SpecTag ========================== *)
\* the characters after the last underscore of cs (cs without underscore)
AfterLastUnderscore(cs) ==
    LET at == {i \in 1..Len(cs) : cs[i] = "_"}
    IN  IF at = {} THEN cs
        ELSE SubSeq(cs, (CHOOSE i \in at : \A j \in at : j <= i) + 1, Len(cs))

\* the role names and the public alias whose lower-cased spelling is that
\* of the segment after the last underscore of the extension-less filename
TagMatches(filename) ==
    IF "_" \notin Range(SplitextBase(filename)) THEN {}
    ELSE {k \in Range(ROLES) \cup {"public"} :
            LowerChars(RoleChars[k])
                = LowerChars(AfterLastUnderscore(SplitextBase(filename)))}

\* C11: get_role_from_filename returns the lower-cased trailing segment of
\* the extension-less filename when it equals, case-insensitively, a role
\* name or the public alias, and "staff" for every other filename, those
\* without an underscore included; the result is a key of ROLE_HIERARCHY,
\* and every chunk of a file is indexed with that result.
C11_RoleFromFilename ==
    /\ \A i \in 1..Len(docs_folder) :
          LET filename == docs_folder[i].name
              role     == get_role_from_filename(filename)
          IN  /\ role \in DOMAIN ROLE_HIERARCHY
              /\ TagMatches(filename) # {} =>
                    /\ role \in TagMatches(filename)
                    /\ RoleChars[role]
                          = LowerChars(AfterLastUnderscore(SplitextBase(filename)))
              /\ TagMatches(filename) = {} => role = "staff"
    /\ vector_store # None =>
          \A i \in 1..Len(vector_store.chunks) :
              LET md == vector_store.chunks[i].metadata
              IN  /\ TagMatches(md.source) # {} => md.role \in TagMatches(md.source)
                  /\ TagMatches(md.source) = {} => md.role = "staff"

\* C11 witness: a file whose tag is written in capitals was indexed under
\* the lower-cased role.
C11_Witness ==
    /\ vector_store # None
    /\ \E i \in 1..Len(vector_store.chunks) :
          LET md == vector_store.chunks[i].metadata
          IN  /\ AfterLastUnderscore(SplitextBase(md.source)) = <<"H", "R">>
              /\ md.role = "hr"
              /\ md.role_level = 2

====
